---- MODULE Spec2Model ----
(***************************************************************************)
(* Circle Condominium Damage Dashboard (src/app.py): the script's data     *)
(* pipeline as a state machine.                                            *)
(*                                                                         *)
(*   load_data -> Damage Type List derivation -> sidebar criteria          *)
(*             -> apply_filters -> tally (damage-frequency chart)          *)
(*                                                                         *)
(* Text is a sequence of one-character strings.  A cell that may be NaN    *)
(* is an option: <<>> is NaN, <<v>> holds v.  A DataFrame is a record      *)
(* [cols, rows]: the set of its column labels and the sequence of its      *)
(* rows.  pandas' operations are modelled by what the library does on      *)
(* these frames (regular-expression search of str.contains, index          *)
(* alignment of `|`, boolean indexing with an unalignable or a non-boolean *)
(* key), object-dtype text columns and a numeric severity column assumed.  *)
(* Severity scores are integers (the slider's 0.5 step is not modelled).   *)
(***************************************************************************)
EXTENDS Integers, Sequences, FiniteSets, TLC

VARIABLES pc, disk, df, query, towers, damage_types, severity_range,
          filtered_df, tally

vars == <<pc, disk, df, query, towers, damage_types, severity_range,
          filtered_df, tally>>

(* ------------------------------ bounds --------------------------------- *)

\* Rows of a data file.
MaxRows == 2
\* Rows of the CSV file when the parquet file is present too.
MaxCsvRows == 1
\* Rows of a frame handed to the damage-frequency chart.
MaxTallyRows == 2

(* ------------------------------ values --------------------------------- *)

None == <<>>
Some(v) == <<v>>

RoomNo == "Room No"
Tower == "Tower"
DamagesFound == "Damages Found"
SeverityScore == "Severity Score"
DamageTypeList == "Damage Type List"

\* The columns a data file may carry (Image URL plays no part in the logic).
FileCols == {RoomNo, Tower, DamagesFound, SeverityScore}

Row(room, dmg, tower, sev) ==
    [room |-> room, dmg |-> dmg, tower |-> tower, sev |-> sev, dtl |-> <<>>]

\* The reports the data files are made of.
Reports ==
    { Row(Some(<<"a", "1">>), Some(<<"A", "b", ",", " ", "c">>), Some("T1"), Some(5)),
      Row(Some(<<"B">>),      Some(<<"c", ",", "c">>),           Some("T2"), Some(6)),
      Row(None,               None,                              None,       None),
      Row(Some(<<"b", ".">>), Some(<<" ", ",">>),                Some("T1"), None),
      Row(Some(<<"c">>),      Some(<<>>),                        None,       Some(6)) }

\* The column layouts of a data file: complete, or with optional columns missing.
ColSets ==
    { FileCols,
      FileCols \ {Tower},
      FileCols \ {RoomNo},
      FileCols \ {DamagesFound},
      FileCols \ {RoomNo, DamagesFound},
      FileCols \ {SeverityScore} }

\* A row as a file without some columns holds it: the missing cells read NaN.
Project(r, cols) ==
    [room  |-> IF RoomNo \in cols THEN r.room ELSE None,
     dmg   |-> IF DamagesFound \in cols THEN r.dmg ELSE None,
     tower |-> IF Tower \in cols THEN r.tower ELSE None,
     sev   |-> IF SeverityScore \in cols THEN r.sev ELSE None,
     dtl   |-> <<>>]

SeqsUpTo(S, n) == UNION { [1..k -> S] : k \in 0..n }

Tables(n, colsets) ==
    { [cols |-> c, rows |-> [i \in DOMAIN rs |-> Project(rs[i], c)]] :
        c \in colsets, rs \in SeqsUpTo(Reports, n) }

\* pd.DataFrame()
EmptyFrame == [cols |-> {}, rows |-> <<>>]

(* ----------------------------- load_data ------------------------------- *)

Candidates == <<"parquet", "csv">>

File(status, table) == [status |-> status, table |-> table]

RECURSIVE load_from(_, _)
load_from(d, i) ==
    IF i > Len(Candidates)
    THEN [raised |-> "none", table |-> EmptyFrame]
    ELSE LET f == d[Candidates[i]] IN
         IF f.status = "missing" THEN load_from(d, i + 1)
         ELSE IF f.status = "malformed"
              THEN [raised |-> "ParseError", table |-> EmptyFrame]
              ELSE [raised |-> "none", table |-> f.table]

\* Mutant: every exception of a reader is swallowed (except Exception).
load_data_swallow(d) ==
    load_from([k \in DOMAIN d |->
                 IF d[k].status = "malformed" THEN File("missing", EmptyFrame) ELSE d[k]],
              1)

load_data(d) == load_from(d, 1)

(* ---------------------- Damage Type List derivation -------------------- *)

fillna(x) == IF x = None THEN <<>> ELSE x[1]

\* str.split(","): the fragments between commas, empty ones included.
RECURSIVE split(_, _)
split(s, cur) ==
    IF s = <<>> THEN <<cur>>
    ELSE IF Head(s) = "," THEN <<cur>> \o split(Tail(s), <<>>)
    ELSE split(Tail(s), Append(cur, Head(s)))

IsSpace(c) == c = " "

RECURSIVE lstrip(_)
lstrip(s) == IF s # <<>> /\ IsSpace(Head(s)) THEN lstrip(Tail(s)) ELSE s

RECURSIVE rstrip(_)
rstrip(s) ==
    IF s # <<>> /\ IsSpace(s[Len(s)]) THEN rstrip(SubSeq(s, 1, Len(s) - 1)) ELSE s

strip(s) == rstrip(lstrip(s))

NonEmpty(s) == s # <<>>

\* Mutant: the comprehension without its condition.
damage_type_list_unfiltered(x) ==
    LET frags == split(x, <<>>) IN [i \in DOMAIN frags |-> strip(frags[i])]

\* [d.strip() for d in x.split(",") if d.strip()]
damage_type_list(x) ==
    LET frags == split(x, <<>>) IN
    SelectSeq([i \in DOMAIN frags |-> strip(frags[i])], NonEmpty)

derive(t) ==
    [cols |-> t.cols \cup {DamageTypeList},
     rows |-> [i \in DOMAIN t.rows |->
                 [t.rows[i] EXCEPT !.dtl =
                     IF DamagesFound \in t.cols
                     THEN damage_type_list(fillna(t.rows[i].dmg))
                     ELSE <<>>]]]

(* --------------------------- sidebar widgets --------------------------- *)

\* No range supplied (a falsy severity_range).
NoRange == <<>>

Range(s) == { s[i] : i \in DOMAIN s }

\* sorted(df.get("Tower", pd.Series(dtype=str)).dropna().unique())
tower_options(d) ==
    IF Tower \in d.cols
    THEN { r.tower[1] : r \in { x \in Range(d.rows) : x.tower # None } }
    ELSE {}

\* sorted({d for lst in df["Damage Type List"] for d in lst})
all_dtypes(d) == UNION { Range(r.dtl) : r \in Range(d.rows) }

DefaultMinSv == 0
DefaultMaxSv == 10

SetMin(S) == CHOOSE x \in S : \A y \in S : x <= y
SetMax(S) == CHOOSE x \in S : \A y \in S : x >= y

scores(d) == { r.sev[1] : r \in { x \in Range(d.rows) : x.sev # None } }

\* Series.min() / Series.max() skip NaN; NaN when no score is left.
min_sv(d) ==
    IF SeverityScore \in d.cols /\ d.rows # <<>>
    THEN IF scores(d) = {} THEN None ELSE Some(SetMin(scores(d)))
    ELSE Some(DefaultMinSv)

max_sv(d) ==
    IF SeverityScore \in d.cols /\ d.rows # <<>>
    THEN IF scores(d) = {} THEN None ELSE Some(SetMax(scores(d)))
    ELSE Some(DefaultMaxSv)

\* The slider's default value: (min_sv, max_sv).
default_range(d) == <<min_sv(d), max_sv(d)>>

\* The ranges the slider can return: its ends are drawn from the two bounds.
slider(lo, hi) ==
    IF lo = None \/ hi = None THEN { <<lo, hi>> }
    ELSE { r \in { <<Some(a), Some(b)>> : a \in {lo[1], hi[1]}, b \in {lo[1], hi[1]} } :
             r[1][1] <= r[2][1] }

(* ----------------------------- apply_filters --------------------------- *)

Ok(fr) == [raised |-> "none", cols |-> fr.cols, rows |-> fr.rows]
Raise(e) == [raised |-> e, cols |-> {}, rows |-> <<>>]

\* re.IGNORECASE on the letters of the alphabet.
Lower(c) == CASE c = "A" -> "a" [] c = "B" -> "b" [] OTHER -> c

\* re.compile(pat): "(" opens a group; none of the query alphabet closes it.
RegexCompiles(pat) == \A k \in DOMAIN pat : pat[k] # "("

\* pat.search(s): "." matches any character, every other one itself.
MatchesAt(pat, s, i) ==
    \A k \in DOMAIN pat : pat[k] = "." \/ Lower(pat[k]) = Lower(s[i + k - 1])

Search(pat, s) == \E i \in 1..(Len(s) - Len(pat) + 1) : MatchesAt(pat, s, i)

Cell(r, col) == IF col = RoomNo THEN r.room ELSE r.dmg

\* filtered.get(col, pd.Series(dtype=str)).str.contains(query, case=False, na=False):
\* a missing column gives the empty Series.
str_contains(fr, col, pat) ==
    IF col \in fr.cols
    THEN [i \in DOMAIN fr.rows |->
            Cell(fr.rows[i], col) # None /\ Search(pat, Cell(fr.rows[i], col)[1])]
    ELSE <<>>

\* Series.__or__: the operands are aligned on the union of their indexes; a
\* label the left one lacks is NaN there and NaN | x is False, a label the
\* right one lacks is filled with False.
series_or(a, b) ==
    [i \in 1..(IF Len(a) >= Len(b) THEN Len(a) ELSE Len(b)) |->
        IF i > Len(a) THEN FALSE ELSE (a[i] \/ (i <= Len(b) /\ b[i]))]

RECURSIVE select_rows(_, _)
select_rows(rows, mask) ==
    IF rows = <<>> THEN <<>>
    ELSE (IF Head(mask) THEN <<Head(rows)>> ELSE <<>>)
         \o select_rows(Tail(rows), Tail(mask))

\* filtered[mask] with a boolean Series: a mask that does not cover the frame's
\* index is an IndexingError (unalignable boolean Series).
bool_index(fr, mask) ==
    IF Len(mask) # Len(fr.rows) THEN Raise("IndexingError")
    ELSE [raised |-> "none", cols |-> fr.cols, rows |-> select_rows(fr.rows, mask)]

text_stage(o, q) ==
    IF o.raised # "none" \/ q = <<>> THEN o
    ELSE IF ~RegexCompiles(q) THEN Raise("re.error")
    ELSE bool_index(o, series_or(str_contains(o, RoomNo, q),
                                 str_contains(o, DamagesFound, q)))

\* filtered.get("Tower", pd.Series(dtype=str)).isin(towers)
isin(fr, tw) ==
    IF Tower \in fr.cols
    THEN [i \in DOMAIN fr.rows |->
            fr.rows[i].tower # None /\ fr.rows[i].tower[1] \in tw]
    ELSE <<>>

\* Mutant: the tower predicate without its `if towers` guard.
tower_stage_unguarded(o, tw) ==
    IF o.raised # "none" THEN o
    ELSE bool_index(o, isin(o, tw))

tower_stage(o, tw) ==
    IF o.raised # "none" \/ tw = {} THEN o
    ELSE bool_index(o, isin(o, tw))

\* Mutant: all(...) for any(...).
has_every_damage_type(lst, dt) == \A d \in dt : d \in Range(lst)

\* any(d in lst for d in damage_types)
has_damage_type(lst, dt) == \E d \in dt : d \in Range(lst)

\* filtered[filtered["Damage Type List"].apply(...)]: a frame without the column
\* is a KeyError; on a frame without rows Series.apply returns an empty object
\* Series, which is no boolean indexer but an empty list of column labels, and
\* the result keeps no column.
damage_stage(o, dt) ==
    IF o.raised # "none" \/ dt = {} THEN o
    ELSE IF DamageTypeList \notin o.cols THEN Raise("KeyError")
    ELSE IF o.rows = <<>> THEN [raised |-> "none", cols |-> {}, rows |-> <<>>]
    ELSE bool_index(o, [i \in DOMAIN o.rows |-> has_damage_type(o.rows[i].dtl, dt)])

\* Mutants: strict comparisons.
GeStrict(x, y) == x # None /\ y # None /\ x[1] > y[1]
LeStrict(x, y) == x # None /\ y # None /\ x[1] < y[1]

\* Comparisons with NaN are False.
Ge(x, y) == x # None /\ y # None /\ x[1] >= y[1]
Le(x, y) == x # None /\ y # None /\ x[1] <= y[1]

severity_stage(o, sr) ==
    IF o.raised # "none" \/ ~(SeverityScore \in o.cols /\ sr # NoRange) THEN o
    ELSE bool_index(o, [i \in DOMAIN o.rows |->
                          Ge(o.rows[i].sev, sr[1]) /\ Le(o.rows[i].sev, sr[2])])

filter_with(data, q, tw, dt, sr) ==
    severity_stage(damage_stage(tower_stage(text_stage(Ok(data), q), tw), dt), sr)

\* apply_filters reads the criteria from the module's globals.
apply_filters(data) == filter_with(data, query, towers, damage_types, severity_range)

(* --------------------------------- tally ------------------------------- *)

\* head(10)
TopN == 10

\* DataFrame.explode: one entry per label of each row's list, NaN for an empty list.
RECURSIVE explode(_)
explode(rows) ==
    IF rows = <<>> THEN <<>>
    ELSE (IF Head(rows).dtl = <<>> THEN <<None>>
          ELSE [i \in DOMAIN Head(rows).dtl |-> Some(Head(rows).dtl[i])])
         \o explode(Tail(rows))

count_of(xs, l) == Cardinality({ i \in DOMAIN xs : xs[i] = Some(l) })

\* value_counts drops NaN: its keys are the labels.
keys(xs) == { x[1] : x \in { y \in Range(xs) : y # None } }

\* Mutant: the smallest count first (an ascending sort).
MinCount(K, xs) == SetMin({ count_of(xs, k) : k \in K })

\* The count that sorts first.
MaxCount(K, xs) == SetMax({ count_of(xs, k) : k \in K })

\* sort_values(ascending=False) of the counts: descending, and the order of
\* equal counts is the sort's (quicksort, which is not stable): any order.
RECURSIVE orderings(_, _)
orderings(K, xs) ==
    IF K = {} THEN { <<>> }
    ELSE UNION { { <<[label |-> k, count |-> count_of(xs, k)]>> \o t :
                     t \in orderings(K \ {k}, xs) } :
                 k \in { x \in K : count_of(xs, x) = MaxCount(K, xs) } }

value_counts(xs) == orderings(keys(xs), xs)

head(s, n) == SubSeq(s, 1, IF Len(s) < n THEN Len(s) ELSE n)

(* ------------------------------ actions -------------------------------- *)

NotRun == [raised |-> "none", cols |-> {}, rows |-> <<>>]

Disks ==
    { [parquet |-> File("ok", p), csv |-> File("ok", c)] :
        p \in Tables(MaxRows, {FileCols, FileCols \ {DamagesFound}}),
        c \in Tables(MaxCsvRows, {FileCols, FileCols \ {DamagesFound}}) }
    \cup
    { [parquet |-> File(sp, IF sp = "ok" THEN t ELSE EmptyFrame),
       csv     |-> File(sc, IF sc = "ok" THEN t ELSE EmptyFrame)] :
        sp \in {"missing", "ok", "malformed"},
        sc \in {"missing", "ok", "malformed"},
        t \in Tables(MaxRows, {FileCols, FileCols \ {DamagesFound}}) }

Init ==
    /\ pc = "load"
    /\ disk \in Disks
    /\ df = EmptyFrame
    /\ query = <<>>
    /\ towers = {}
    /\ damage_types = {}
    /\ severity_range = NoRange
    /\ filtered_df = NotRun
    /\ tally = <<>>

\* df = load_data(): an exception other than FileNotFoundError ends the script.
LoadData ==
    /\ pc = "load"
    /\ LET r == load_data(disk) IN
         /\ df' = r.table
         /\ pc' = IF r.raised = "none" THEN "derive" ELSE "failed"
    /\ UNCHANGED <<disk, query, towers, damage_types, severity_range,
                   filtered_df, tally>>

DeriveDamageTypeList ==
    /\ pc = "derive"
    /\ df' = derive(df)
    /\ pc' = "sidebar"
    /\ UNCHANGED <<disk, query, towers, damage_types, severity_range,
                   filtered_df, tally>>

\* The text a user can enter. The query alphabet holds letters, the
\* regular-expression wildcard and an opening parenthesis.
Queries == { <<>>, <<"b">>, <<"A">>, <<".">>, <<"(">> }

\* The sidebar widgets: the tower and damage-type selections are subsets of
\* the options computed from df, the range lies within the slider's bounds.
Sidebar ==
    /\ pc = "sidebar"
    /\ query' \in Queries
    /\ towers' \in SUBSET tower_options(df)
    /\ damage_types' \in SUBSET all_dtypes(df)
    /\ severity_range' \in slider(min_sv(df), max_sv(df))
    /\ pc' = "filter"
    /\ UNCHANGED <<disk, df, filtered_df, tally>>

TowerNames == {"T1", "T2"}
Labels == { <<"A", "b">>, <<"c">> }
Ranges ==
    {NoRange, <<Some(DefaultMinSv), Some(DefaultMaxSv)>>}
    \cup { <<Some(a), Some(b)>> : a \in {5, 6}, b \in {5, 6} }

\* A caller that assigns the globals itself, as _run_tests does.
SetGlobals ==
    /\ pc = "sidebar"
    /\ query' \in Queries
    /\ towers' \in SUBSET TowerNames
    /\ damage_types' \in SUBSET Labels
    /\ severity_range' \in Ranges
    /\ pc' = "filter"
    /\ UNCHANGED <<disk, df, filtered_df, tally>>

\* filtered_df = apply_filters(df): an exception ends the script.
ApplyFilters ==
    /\ pc = "filter"
    /\ filtered_df' = apply_filters(df)
    /\ pc' = IF filtered_df'.raised = "none" THEN "render" ELSE "crashed"
    /\ UNCHANGED <<disk, df, query, towers, damage_types, severity_range, tally>>

\* The chart's data: filtered_df.explode(...)[...].value_counts().head(10).
Tally ==
    /\ pc = "render"
    /\ filtered_df.rows # <<>>
    /\ \E vc \in value_counts(explode(filtered_df.rows)) :
         tally' = head(vc, TopN)
    /\ pc' = "done"
    /\ UNCHANGED <<disk, df, query, towers, damage_types, severity_range,
                   filtered_df>>

\* st.info("No data matches the selected filters.")
ShowInfo ==
    /\ pc = "render"
    /\ filtered_df.rows = <<>>
    /\ pc' = "done"
    /\ UNCHANGED <<disk, df, query, towers, damage_types, severity_range,
                   filtered_df, tally>>

(* --------------------------- specifications ---------------------------- *)

\* DataSource: the load and the derivation, from every state of the disk.
Next == LoadData \/ DeriveDamageTypeList

Spec == Init /\ [][Next]_vars

\* FilterEngine: the state after a successful load and derivation.
InitFilter ==
    /\ pc = "sidebar"
    /\ \E t \in Tables(MaxRows, ColSets) :
         /\ disk = [parquet |-> File("ok", t), csv |-> File("missing", EmptyFrame)]
         /\ df = derive(t)
    /\ query = <<>>
    /\ towers = {}
    /\ damage_types = {}
    /\ severity_range = NoRange
    /\ filtered_df = NotRun
    /\ tally = <<>>

NextFilter == Sidebar \/ SetGlobals \/ ApplyFilters

SpecFilter == InitFilter /\ [][NextFilter]_vars

\* A report with eleven damage types, of four, three, two and one occurrences.
ManyTypes ==
    Row(Some(<<"1">>),
        Some(
    <<"a", ",", "a", ",", "a", ",", "a", ",", "b", ",", "b", ",", "b", ",",
      "b", ",", "c", ",", "c", ",", "c", ",", "d", ",", "d", ",", "d", ",",
      "e", ",", "e", ",", "e", ",", "f", ",", "f", ",", "g", ",", "g", ",",
      "h", ",", "h", ",", "i", ",", "j", ",", "k">>),
        Some("T2"), Some(5))

TallyReports ==
    { ManyTypes,
      Row(Some(<<"a", "1">>), Some(<<"A", "b", ",", " ", "c">>), Some("T1"), Some(5)),
      Row(Some(<<"B">>),      Some(<<"c", ",", "c">>),           Some("T2"), Some(6)),
      Row(Some(<<"c">>),      Some(<<>>),                        Some("T1"), Some(6)) }

\* The chart: the state after the filter ran with the sidebar's defaults.
InitTally ==
    /\ pc = "render"
    /\ \E rs \in SeqsUpTo(TallyReports, MaxTallyRows) :
         /\ disk = [parquet |-> File("ok", [cols |-> FileCols, rows |-> rs]),
                    csv |-> File("missing", EmptyFrame)]
         /\ df = derive([cols |-> FileCols, rows |-> rs])
    /\ query = <<>>
    /\ towers = tower_options(df)
    /\ damage_types = {}
    /\ severity_range = default_range(df)
    /\ filtered_df = apply_filters(df)
    /\ tally = <<>>

NextTally == Tally \/ ShowInfo

SpecTally == InitTally /\ [][NextTally]_vars

(* ------------------------- apply_filters: claims ----------------------- *)

\* apply_filters was called: it returned ("render") or raised ("crashed").
Filtered == pc \in {"render", "crashed"}
Returned == pc = "render"

\* The sidebar's defaults: every tower present, no damage type, the whole range.
IdentityCriteria ==
    /\ query = <<>>
    /\ towers = tower_options(df)
    /\ damage_types = {}
    /\ severity_range = default_range(df)

\* C1 as stated: with the identity criteria apply_filters returns all rows of
\* D in their original order, rows without tower or severity score included
\* (D with every column and a severity score in some row, so that the global
\* minimum and maximum are numbers).
C1_IdentityAllRows ==
    (Filtered /\ IdentityCriteria /\ FileCols \subseteq df.cols /\ scores(df) # {})
        => (filtered_df.raised = "none" /\ filtered_df.rows = df.rows)

KeptByIdentity(r) ==
    /\ (SeverityScore \in df.cols => r.sev # None)
    /\ (tower_options(df) # {} => r.tower # None)

\* C1 amended: with the identity criteria apply_filters returns, in their
\* original order and with every column, exactly the rows that have a severity
\* score (when D has the severity column) and a tower (when some row of D has
\* one): all rows of D when no row lacks either, and never an exception.
C1_IdentityCompleteRows ==
    (Filtered /\ IdentityCriteria)
        => /\ filtered_df.raised = "none"
           /\ filtered_df.cols = df.cols
           /\ filtered_df.rows = SelectSeq(df.rows, KeptByIdentity)

C1_Witness ==
    /\ Returned /\ IdentityCriteria
    /\ FileCols \subseteq df.cols
    /\ Len(df.rows) = 2 /\ df.rows[1] # df.rows[2]
    /\ filtered_df.rows = df.rows

\* The substring test the claim describes: no character is special.
PlainContains(sub, s) ==
    \E i \in 1..(Len(s) - Len(sub) + 1) :
        \A k \in DOMAIN sub : Lower(sub[k]) = Lower(s[i + k - 1])

ClaimedTextMatch(r) ==
    \/ (r.room # None /\ PlainContains(query, r.room[1]))
    \/ (r.dmg # None /\ PlainContains(query, r.dmg[1]))

\* C2 as stated: with a non-empty query apply_filters keeps, of the rows the
\* other criteria keep, exactly those whose room_no or damages_found contains
\* the query as a case-insensitive plain substring (D with every column and at
\* least one row).
C2_PlainSubstring ==
    LET base == filter_with(df, <<>>, towers, damage_types, severity_range) IN
    (/\ Filtered /\ query # <<>>
     /\ FileCols \subseteq df.cols /\ df.rows # <<>> /\ base.raised = "none")
        => /\ filtered_df.raised = "none"
           /\ filtered_df.rows = SelectSeq(base.rows, ClaimedTextMatch)

MatchesSelection(r) == Range(r.dtl) \cap damage_types # {}

\* C3: with a non-empty damage_types criterion apply_filters keeps, of the rows
\* the other criteria keep, exactly those with a label of their list in the
\* criterion; with an empty criterion the result is the one the text, tower and
\* severity predicates alone produce. The predicate raises nothing of its own.
C3_DamageTypePredicate ==
    LET base == filter_with(df, query, towers, {}, severity_range) IN
    Filtered
        => /\ filtered_df.raised = base.raised
           /\ damage_types # {}
                => filtered_df.rows = SelectSeq(base.rows, MatchesSelection)
           /\ damage_types = {}
                => filtered_df =
                     severity_stage(tower_stage(text_stage(Ok(df), query), towers),
                                    severity_range)

C3_Witness ==
    /\ Returned /\ damage_types # {}
    /\ Len(filter_with(df, query, towers, {}, severity_range).rows) = 2
    /\ Len(filtered_df.rows) = 1
    /\ Len(filtered_df.rows[1].dtl) = 2

InRange(r) ==
    /\ r.sev # None /\ severity_range[1] # None /\ severity_range[2] # None
    /\ severity_range[1][1] <= r.sev[1]
    /\ r.sev[1] <= severity_range[2][1]

\* C4: when the dataset has the severity column and a range is supplied,
\* apply_filters keeps, of the rows the other criteria keep, exactly those with
\* min <= severity_score <= max (bounds included); no row without a score is
\* kept; a range with min > max gives no row; the predicate raises nothing.
C4_SeverityPredicate ==
    LET base == filter_with(df, query, towers, damage_types, NoRange) IN
    (Filtered /\ SeverityScore \in df.cols /\ severity_range # NoRange)
        => /\ filtered_df.raised = base.raised
           /\ filtered_df.rows = SelectSeq(base.rows, InRange)
           /\ \A i \in DOMAIN filtered_df.rows : filtered_df.rows[i].sev # None
           /\ (/\ severity_range[1] # None /\ severity_range[2] # None
               /\ severity_range[1][1] > severity_range[2][1])
                => filtered_df.rows = <<>>

C4_Witness ==
    /\ Returned /\ SeverityScore \in df.cols /\ severity_range # NoRange
    /\ Len(filter_with(df, query, towers, damage_types, NoRange).rows) = 2
    /\ Len(filtered_df.rows) = 1
    /\ filtered_df.rows[1].sev = severity_range[1]
    /\ filtered_df.rows[1].sev = severity_range[2]

\* C5 as stated: with an empty towers selection apply_filters returns no row.
C5_EmptyTowersMatchNothing ==
    (Filtered /\ towers = {}) => filtered_df.rows = <<>>

\* C5 amended: an empty towers selection leaves the tower predicate out (as an
\* empty damage_types selection does): the result is the one the text,
\* damage-type and severity predicates alone produce.
C5_EmptyTowersNoRestriction ==
    (Filtered /\ towers = {})
        => filtered_df =
             severity_stage(damage_stage(text_stage(Ok(df), query), damage_types),
                            severity_range)

C5_Witness ==
    /\ Returned /\ towers = {} /\ Tower \in df.cols
    /\ Len(filtered_df.rows) = 2
    /\ filtered_df.rows[1].tower # None
    /\ filtered_df.rows[2].tower # filtered_df.rows[1].tower

\* C6 as stated: on a non-empty dataset that lacks optional columns
\* apply_filters never raises, whatever the criteria.
C6_NeverRaises ==
    (Filtered /\ df.rows # <<>> /\ ~(FileCols \subseteq df.cols))
        => filtered_df.raised = "none"

\* apply_filters(apply_filters(D, C), C): an exception of the inner call is the
\* expression's outcome.
Twice ==
    IF filtered_df.raised # "none" THEN filtered_df
    ELSE apply_filters([cols |-> filtered_df.cols, rows |-> filtered_df.rows])

\* C7 as stated: apply_filters(apply_filters(D, C), C) equals
\* apply_filters(D, C) (D with every column and at least one row).
C7_Idempotent ==
    (Filtered /\ FileCols \subseteq df.cols /\ df.rows # <<>>)
        => Twice = filtered_df

(* ------------------------------ tally: claims -------------------------- *)

Tallied == pc = "done" /\ filtered_df.rows # <<>>

\* The (row, label) pairs of the filtered rows that carry label l.
Occurrences(l) ==
    UNION { { <<i, j>> : j \in { k \in DOMAIN filtered_df.rows[i].dtl :
                                    filtered_df.rows[i].dtl[k] = l } } :
            i \in DOMAIN filtered_df.rows }

FilteredLabels == UNION { Range(r.dtl) : r \in Range(filtered_df.rows) }

\* The place of a label's first occurrence in the exploded column.
FirstSeen(l) ==
    LET xs == explode(filtered_df.rows) IN
    CHOOSE i \in DOMAIN xs : xs[i] = Some(l) /\ \A j \in 1..(i - 1) : xs[j] # Some(l)

RECURSIVE SumCounts(_)
SumCounts(t) == IF t = <<>> THEN 0 ELSE Head(t).count + SumCounts(Tail(t))

TotalPairs == Cardinality(UNION { Occurrences(l) : l \in FilteredLabels })

\* What every order of the tally shares.
TallyCounts ==
    /\ Len(tally) = (IF Cardinality(FilteredLabels) < TopN
                     THEN Cardinality(FilteredLabels) ELSE TopN)
    /\ \A i \in DOMAIN tally :
         /\ tally[i].label \in FilteredLabels
         /\ tally[i].count = Cardinality(Occurrences(tally[i].label))
    /\ \A i, j \in DOMAIN tally :
         /\ i < j => tally[i].count >= tally[j].count
         /\ i # j => tally[i].label # tally[j].label
    /\ \A l \in FilteredLabels :
         (\A i \in DOMAIN tally : tally[i].label # l)
            => \A i \in DOMAIN tally : tally[i].count >= Cardinality(Occurrences(l))
    /\ SumCounts(tally) <= TotalPairs

\* C8 as stated: every occurrence counted once, the labels ordered by count
\* descending with ties in first-seen order, the first top_n entries returned.
C8_TiesFirstSeen ==
    Tallied
        => /\ TallyCounts
           /\ \A i, j \in DOMAIN tally :
                (i < j /\ tally[i].count = tally[j].count)
                    => FirstSeen(tally[i].label) < FirstSeen(tally[j].label)

\* C8 amended: every occurrence of a label in a row's list is counted once
\* (empty lists contribute nothing), the distinct labels are ordered by count
\* descending, labels of equal count in an order the code does not fix, and
\* the first 10 entries are returned: no label left out has a higher count than
\* one returned, and the counts returned sum to at most the number of pairs.
C8_TallyCounts == Tallied => TallyCounts

C8_Witness ==
    /\ Tallied
    /\ Cardinality(FilteredLabels) > TopN
    /\ Len(tally) = TopN
    /\ \E i \in DOMAIN filtered_df.rows : filtered_df.rows[i].dtl = <<>>
    /\ tally[1].count > tally[TopN].count

(* ---------------------------- load_data: claims ------------------------ *)

\* C9: the parquet file is tried before the CSV file and the first one that
\* parses is returned; a missing file moves on to the next candidate; with both
\* missing the result is the empty dataset and no error; a malformed candidate
\* fails the load instead of falling back.
C9_LoadOrder ==
    pc \in {"derive", "failed"}
        => /\ disk.parquet.status = "ok"
                => (pc = "derive" /\ df = disk.parquet.table)
           /\ disk.parquet.status = "malformed" => pc = "failed"
           /\ (disk.parquet.status = "missing" /\ disk.csv.status = "ok")
                => (pc = "derive" /\ df = disk.csv.table)
           /\ (disk.parquet.status = "missing" /\ disk.csv.status = "malformed")
                => pc = "failed"
           /\ (disk.parquet.status = "missing" /\ disk.csv.status = "missing")
                => (pc = "derive" /\ df = EmptyFrame)

C9_Witness ==
    /\ pc = "derive"
    /\ disk.parquet.status = "ok" /\ disk.csv.status = "ok"
    /\ disk.parquet.table # disk.csv.table
    /\ disk.csv.table.rows # <<>>
    /\ df = disk.parquet.table

Blank(x) == \A k \in DOMAIN x : x[k] \in {",", " "}

\* C10 as stated: after loading, a row's damage_types list is empty if and only
\* if its damages_found is empty or missing.
C10_EmptyIffMissing ==
    pc = "sidebar"
        => \A i \in DOMAIN df.rows :
             df.rows[i].dtl = <<>>
                <=> (\/ DamagesFound \notin df.cols
                     \/ df.rows[i].dmg = None
                     \/ df.rows[i].dmg = Some(<<>>))

\* C10 amended: after loading, a row's damage_types list is empty if and only
\* if its damages_found is missing or holds nothing but commas and whitespace
\* (the empty text included); every label is non-empty, without a comma and
\* without whitespace at either end.
C10_EmptyIffBlank ==
    pc = "sidebar"
        => \A i \in DOMAIN df.rows :
             /\ df.rows[i].dtl = <<>>
                  <=> (\/ DamagesFound \notin df.cols
                       \/ df.rows[i].dmg = None
                       \/ Blank(df.rows[i].dmg[1]))
             /\ \A j \in DOMAIN df.rows[i].dtl :
                  LET d == df.rows[i].dtl[j] IN
                  /\ d # <<>>
                  /\ d[1] # " " /\ d[Len(d)] # " "
                  /\ \A k \in DOMAIN d : d[k] # ","

C10_Witness ==
    /\ pc = "sidebar"
    /\ \E i \in DOMAIN df.rows :
         /\ df.rows[i].dmg # None
         /\ df.rows[i].dmg[1] # <<>>
         /\ df.rows[i].dtl = <<>>
    /\ \E i \in DOMAIN df.rows : Len(df.rows[i].dtl) = 2

====
